---- MODULE Spec2Model ----
(***************************************************************************)
(* The stream loop of yt-comment-fetcher (src/src/main.rs): start-up,      *)
(* the select loop that consumes the comment stream, the reconnect path    *)
(* and the two signal branches, as a state machine.                        *)
(*                                                                         *)
(* Program state: args, chat_id, next_page_token, reconnect_until, the     *)
(* output file on disk, standard output, and the position of main (pc).    *)
(* Environment: the clock, the gRPC server (incoming, stream_live), the    *)
(* tokio signal listeners (sigint_flag, sigterm_flag).                     *)
(* History: delivered, opens, faults, signalled.                           *)
(*                                                                         *)
(* After the claims about main: OAuthManager and start_auth_flow of        *)
(* crates/yt-oauth/src/lib.rs (SpecOAuth, SpecAuthFlow) and the            *)
(* YouTubeClient of crates/yt-grpc-client/src/lib.rs (SpecClient), each    *)
(* with variables of its own that stay idle while main runs.               *)
(***************************************************************************)
EXTENDS Integers, Sequences, FiniteSets, TLC

\* ------------------------------------------------------------------ bounds
MaxDeliveries == 2   \* responses the server hands to next() in one run
MaxFaults == 2       \* stream errors, stream ends and failed reconnects in one run
MaxLogLines == 3     \* lines of a log the resume block is tried on

\* ------------------------------------------------------------- Option<T>
None == <<>>
Some(x) == <<x>>
IsSome(o) == o # <<>>
Unwrap(o) == o[1]

\* --------------------------------------------------------------- messages
Tokens == {"a", "b"}

\* the chat id fetch_chat_id may return; the items of the stream and of the
\* logs on disk carry "c1"
ChatIds == {"c2"}

\* --reconnect-wait-secs: no wait, or a wait that takes time
WaitSecs == {0, 1}

\* LiveChatMessage: an id and snippet.live_chat_id
Items == { [id |-> "m1", live_chat_id |-> Some("c1")] }

\* LiveChatMessageListResponse: items and next_page_token (both as prost gives them)
Responses ==
  [ items : {<<>>} \cup { <<i>> : i \in Items },
    next_page_token : {None} \cup { Some(t) : t \in Tokens } ]

NoResponse == [items |-> <<>>, next_page_token |-> None]

\* What stream.next() resolves to: Some(Ok(message)), Some(Err(e)), None
StreamResults ==
  { [tag |-> "msg", message |-> m] : m \in Responses }
    \cup { [tag |-> "err", message |-> NoResponse],
           [tag |-> "end", message |-> NoResponse] }

\* ------------------------------------------------------- lines of the file
\* A line of the output file.  kind "json" is a JSON object; keys tells how
\* its members are named: "snake" (next_page_token, live_chat_id) or
\* "camel" (nextPageToken, liveChatId).  "blank" is a whitespace-only line,
\* "garbage" a non-JSON line, "torn" what a failed write left behind.
Line(kind, keys, items, token) ==
  [kind |-> kind, keys |-> keys, items |-> items, token |-> token]

BlankLine == Line("blank", "none", <<>>, None)
GarbageLine == Line("garbage", "none", <<>>, None)
TornLine == Line("torn", "none", <<>>, None)

\* serde_json::to_string(&message): the derive added by build.rs carries no
\* rename, so the members keep the Rust field names.
ToJson(message) ==
  Line("json", "snake", message.items, message.next_page_token)

\* ------------------------------------------------------------------ state
VARIABLES
  args,             \* Args
  key_file,         \* the content of the file at --api-key-path: None or Some(key)
  api_key,          \* Option<String>, the local of main
  disk,             \* the output file: None (absent) or Some(lines)
  disk0,            \* history: the output file as the process found it
  stdout,           \* lines written to standard output
  pc,               \* where main is
  result,           \* how the process ended, "running" until then
  chat_id,          \* Option<String>
  next_page_token,  \* Option<String> (initial_page_token until line 302)
  reconnect_until,  \* Option<Instant>
  now,              \* the clock
  incoming,         \* what the stream has ready for next(): None or Some(result)
  stream_live,      \* the current stream has neither failed nor ended
  sigint_flag,      \* the ctrl_c() future of the current select is ready
  sigterm_flag,     \* sigterm has a signal that recv() has not taken yet
  delivered,        \* history: the messages next() handed to the loop
  opens,            \* history: the stream_comments requests, in order
  faults,           \* history: number of failures the environment injected
  signalled,        \* history: a termination signal has reached the process
  token,            \* OAuthManager.token: Option<OAuthToken>
  token0,           \* history: the token as load_token stored it
  system_time,      \* SystemTime::now(), seconds since the epoch
  last_call,        \* history: the last get_access_token call and what it returned
  flow_pc,          \* where start_auth_flow is
  code_receiver,    \* Arc<Mutex<Option<String>>> shared with the callback handler
  server_handle,    \* the spawned callback server task: "none", "running", "aborted"
  elapsed,          \* start.elapsed(), in milliseconds
  flow_result,      \* what start_auth_flow returned, "none" until then
  exchanged,        \* history: the code handed to exchange_code
  callbacks,        \* history: number of callbacks the server has answered
  last_callback,    \* history: the query parameters of the last callback
  carried,          \* history: the codes that callbacks have carried
  client,           \* the YouTubeClient: None or Some of its api_key and oauth_token
  request           \* history: the last stream_comments call and what it sent

\* the variables of main
main_vars ==
  << args, key_file, api_key, disk, disk0, stdout, pc, result, chat_id, next_page_token, reconnect_until,
     now, incoming, stream_live, sigint_flag, sigterm_flag, delivered, opens,
     faults, signalled >>

\* the variables of OAuthManager
oauth_vars == << token, token0, system_time, last_call >>

\* the variables of start_auth_flow
flow_vars ==
  << flow_pc, code_receiver, server_handle, elapsed, flow_result, exchanged, callbacks,
     last_callback, carried >>

\* the variables of YouTubeClient
client_vars == << client, request >>

vars == << main_vars, oauth_vars, flow_vars, client_vars >>

\* No OAuthManager has been made
OAuthIdle ==
  /\ token = None
  /\ token0 = None
  /\ system_time = 0
  /\ last_call = None

\* No YouTubeClient of the client model has been made
ClientIdle ==
  /\ client = None
  /\ request = None

\* start_auth_flow has not been called
FlowIdle ==
  /\ flow_pc = "idle"
  /\ code_receiver = None
  /\ server_handle = "none"
  /\ elapsed = 0
  /\ flow_result = "none"
  /\ exchanged = None
  /\ callbacks = 0
  /\ last_callback = None
  /\ carried = {}

\* Logs that may be on disk before the process starts
InitialLogs ==
  { None,
    Some(<< Line("json", "camel", << [id |-> "m1", live_chat_id |-> Some("c1")] >>, Some("a")) >>),
    Some(<< Line("json", "snake", << [id |-> "m1", live_chat_id |-> Some("c1")] >>, Some("a")),
            BlankLine >>) }

InitFrom(logs) ==
  /\ args \in [ video_id : BOOLEAN, api_key_path : BOOLEAN, output_file : BOOLEAN,
                resume : BOOLEAN, reconnect_wait_secs : WaitSecs ]
  /\ key_file = IF args.api_key_path THEN Some("k1") ELSE None
  /\ api_key = None
  /\ disk \in logs
  /\ (~args.output_file => disk = None)
  /\ disk0 = disk
  /\ stdout = <<>>
  /\ pc = "start"
  /\ result = "running"
  /\ chat_id = None
  /\ next_page_token = None
  /\ reconnect_until = None
  /\ now = 0
  /\ incoming = None
  /\ stream_live = FALSE
  /\ sigint_flag = FALSE
  /\ sigterm_flag = FALSE
  /\ delivered = <<>>
  /\ opens = <<>>
  /\ faults = 0
  /\ signalled = FALSE
  /\ OAuthIdle
  /\ FlowIdle
  /\ ClientIdle

Init == InitFrom(InitialLogs)

\* main returns (Ok or Err) or the process is killed
Exit(r) ==
  /\ pc' = "exit"
  /\ result' = r

\* Variant: the request takes the chat id from the first item of the last
\* response that had items
OpenRequestFromBatch ==
  LET had == SelectSeq(delivered, LAMBDA m : m.items # <<>>)
  IN  [ live_chat_id |-> IF had = <<>> THEN chat_id
                         ELSE had[Len(had)].items[1].live_chat_id,
        page_token |-> next_page_token,
        api_key |-> api_key ]

\* stream_comments(Some(chat_id.clone()), page_token.clone()), lines 294-296 and
\* 38-40: the request that is sent, with the key given to connect (lines 36, 291)
\* as its x-goog-api-key
OpenRequest ==
  [live_chat_id |-> chat_id, page_token |-> next_page_token, api_key |-> api_key]

\* ----------------------------------------------------------------- resume
\* Variant: the last line of the file, blank or not
read_last_line_any(d) ==
  IF d = None \/ Unwrap(d) = <<>> THEN None
  ELSE Some(Unwrap(d)[Len(Unwrap(d))])

\* read_last_line on a file that could be read: the last line that is not blank
read_last_line(d) ==
  IF d = None THEN None
  ELSE LET nonblank == SelectSeq(Unwrap(d), LAMBDA l : l.kind # "blank")
       IN  IF nonblank = <<>> THEN None ELSE Some(nonblank[Len(nonblank)])

\* parse_resume_info: Err for a line that is not JSON, else (chat_id, next_page_token)
\* read from items[0].snippet.liveChatId and nextPageToken
parse_resume_info(l) ==
  IF l.kind # "json" THEN [ok |-> FALSE, chat_id |-> None, token |-> None]
  ELSE [ ok |-> TRUE,
         chat_id |-> IF l.keys = "camel" /\ l.items # <<>>
                       THEN l.items[1].live_chat_id ELSE None,
         token |-> IF l.keys = "camel" THEN l.token ELSE None ]

\* Variant: the page token of a last line without chat id is kept
ResumeInfoKeepsToken(d) ==
  LET last == read_last_line(d) IN
  IF last = None THEN [chat_id |-> None, token |-> None]
  ELSE LET p == parse_resume_info(Unwrap(last)) IN
       IF p.ok THEN [chat_id |-> p.chat_id, token |-> p.token]
       ELSE [chat_id |-> None, token |-> None]

\* Variant: the resume block falls back to the last line that gives a chat id
ResumeInfoSkipsMalformed(d) ==
  LET good == IF d = None THEN <<>>
              ELSE SelectSeq(Unwrap(d), LAMBDA l : /\ parse_resume_info(l).ok
                                                   /\ IsSome(parse_resume_info(l).chat_id))
  IN  IF good = <<>> THEN [chat_id |-> None, token |-> None]
      ELSE [ chat_id |-> parse_resume_info(good[Len(good)]).chat_id,
             token |-> parse_resume_info(good[Len(good)]).token ]

\* lines 220-252: (chat_id, initial_page_token) of the resume block
ResumeInfo(d) ==
  LET last == read_last_line(d) IN
  IF last = None THEN [chat_id |-> None, token |-> None]
  ELSE LET p == parse_resume_info(Unwrap(last)) IN
       IF p.ok /\ IsSome(p.chat_id)
         THEN [chat_id |-> p.chat_id, token |-> p.token]
         ELSE [chat_id |-> None, token |-> None]

\* --------------------------------------------------------------- start-up
\* The output file opened with truncate(true) in place of append(true)
OpenTruncate(d) == Some(<<>>)

\* lines 209-212, OpenOptions create(true).append(true): an absent file is created
\* empty, an existing one keeps its content
OpenAppend(d) == IF d = None THEN Some(<<>>) ELSE d

\* The fallback of lines 254-259 taken without asking for the video id
MissingVideoIdUnchecked(info) == FALSE

\* lines 255-259: no chat id from the resume block and no --video-id
MissingVideoId(info) == info.chat_id = None /\ ~args.video_id

\* Variant: only the second test of the validation is made
InvalidArgsResumeOnly == args.resume /\ ~args.output_file

\* lines 184-191: neither --video-id nor --resume, or --resume without
\* --output-file
InvalidArgs ==
  \/ ~args.resume /\ ~args.video_id
  \/ args.resume /\ ~args.output_file

\* lines 194-203: the key is the content of the file, when a path is given
ReadKey == IF args.api_key_path THEN key_file ELSE None

\* main, lines 182-272 up to the first await: argument validation, opening the
\* the API key file, the output file (create + append), the resume block, the
\* need for a video id.
Startup ==
  /\ pc = "start"
  /\ \E key_ok \in BOOLEAN, open_ok \in BOOLEAN, read_ok \in BOOLEAN :
       IF InvalidArgs
       THEN Exit("args") /\ UNCHANGED <<api_key, disk, chat_id, next_page_token>>
       ELSE IF args.api_key_path /\ ~key_ok
       THEN Exit("io_key") /\ UNCHANGED <<api_key, disk, chat_id, next_page_token>>
       ELSE IF args.output_file /\ ~open_ok
       THEN /\ api_key' = ReadKey
            /\ Exit("io_open") /\ UNCHANGED <<disk, chat_id, next_page_token>>
       ELSE
         LET opened == IF args.output_file THEN OpenAppend(disk) ELSE disk
             info == IF args.resume THEN ResumeInfo(opened)
                     ELSE [chat_id |-> None, token |-> None]
         IN  /\ api_key' = ReadKey
             /\ disk' = opened
             /\ IF args.resume /\ ~read_ok
                THEN Exit("io_read") /\ UNCHANGED <<chat_id, next_page_token>>
                ELSE IF MissingVideoId(info)
                THEN Exit("config") /\ UNCHANGED <<chat_id, next_page_token>>
                ELSE /\ chat_id' = info.chat_id
                     /\ next_page_token' = info.token
                     /\ pc' = IF info.chat_id = None THEN "fetch" ELSE "connect"
                     /\ UNCHANGED result
  /\ UNCHANGED << oauth_vars, flow_vars, client_vars, args, key_file, disk0, stdout, reconnect_until, now, incoming, stream_live,
                  sigint_flag, sigterm_flag, delivered, opens, faults, signalled >>

\* What the videos.list request may come back with: no response at all, a
\* non-success status, or a success with one of these bodies
LookupResponses ==
  { [sent |-> FALSE, success |-> FALSE, body |-> "none", id |-> ""],
    [sent |-> TRUE,  success |-> FALSE, body |-> "none", id |-> ""] }
  \cup { [sent |-> TRUE, success |-> TRUE, body |-> b, id |-> ""] :
            b \in {"not_json", "no_items", "items_not_array", "no_video",
                   "not_live", "no_chat"} }
  \cup { [sent |-> TRUE, success |-> TRUE, body |-> "live", id |-> c] : c \in ChatIds }

\* Variant: a video without activeLiveChatId gives Ok with an empty chat id
fetch_chat_id_lenient(resp) ==
  IF resp.sent /\ resp.success /\ resp.body \in {"live", "no_chat"}
    THEN [ok |-> TRUE, chat_id |-> resp.id]
    ELSE [ok |-> FALSE, chat_id |-> ""]

\* fetch_chat_id, lines 427-472: Err for a failed send, a non-success status,
\* a body that is not JSON, has no items array, no first item, no
\* liveStreamingDetails or no activeLiveChatId; else Ok(activeLiveChatId)
fetch_chat_id(resp) ==
  IF ~resp.sent THEN [ok |-> FALSE, chat_id |-> ""]
  ELSE IF ~resp.success THEN [ok |-> FALSE, chat_id |-> ""]
  ELSE IF resp.body # "live" THEN [ok |-> FALSE, chat_id |-> ""]
  ELSE [ok |-> TRUE, chat_id |-> resp.id]

\* fetch_chat_id, awaited at line 269: the chat id, or an error that main returns
FetchChatId ==
  /\ pc = "fetch"
  /\ \E resp \in LookupResponses :
       IF fetch_chat_id(resp).ok
       THEN /\ chat_id' = Some(fetch_chat_id(resp).chat_id)
            /\ pc' = "connect"
            /\ UNCHANGED result
       ELSE Exit("resolver") /\ UNCHANGED chat_id
  /\ UNCHANGED << oauth_vars, flow_vars, client_vars, args, key_file, api_key, disk0, disk, stdout, next_page_token, reconnect_until, now, incoming,
                  stream_live, sigint_flag, sigterm_flag, delivered, opens, faults,
                  signalled >>

\* line 291: the first connect; its error is returned by main
InitialConnect ==
  /\ pc = "connect"
  /\ \/ pc' = "stream" /\ UNCHANGED result
     \/ Exit("connect")
  /\ UNCHANGED << oauth_vars, flow_vars, client_vars, args, key_file, api_key, disk0, disk, stdout, chat_id, next_page_token, reconnect_until, now,
                  incoming, stream_live, sigint_flag, sigterm_flag, delivered, opens,
                  faults, signalled >>

\* lines 294-312: the first stream_comments, its error returned by main; then the
\* SIGTERM listener is set up (its error returned too) and the loop is entered
InitialStream ==
  /\ pc = "stream"
  /\ opens' = Append(opens, OpenRequest)
  /\ \/ Exit("stream_start") /\ UNCHANGED stream_live
     \/ Exit("signal_setup") /\ UNCHANGED stream_live
     \/ pc' = "loop" /\ stream_live' = TRUE /\ UNCHANGED result
  /\ UNCHANGED << oauth_vars, flow_vars, client_vars, args, key_file, api_key, disk0, disk, stdout, chat_id, next_page_token, reconnect_until, now,
                  incoming, sigint_flag, sigterm_flag, delivered, faults, signalled >>

\* ------------------------------------------------------------ environment
StartupPcs == {"start", "fetch", "connect", "stream"}

\* The server makes the stream ready: with a response, an error, or its end.
\* The stream is gone with the process.
ServerDeliver ==
  /\ pc # "exit"
  /\ stream_live
  /\ incoming = None
  /\ \E r \in StreamResults :
       /\ r.tag = "msg" => Len(delivered) < MaxDeliveries
       /\ r.tag # "msg" => faults < MaxFaults
       /\ incoming' = Some(r)
       /\ faults' = IF r.tag = "msg" THEN faults ELSE faults + 1
  /\ UNCHANGED << oauth_vars, flow_vars, client_vars, args, key_file, api_key, disk0, disk, stdout, pc, result, chat_id, next_page_token,
                  reconnect_until, now, stream_live, sigint_flag, sigterm_flag,
                  delivered, opens, signalled >>

\* A second passes while sleep_until(until) is pending.
Tick ==
  /\ pc = "loop"
  /\ IsSome(reconnect_until)
  /\ now < Unwrap(reconnect_until)
  /\ now' = now + 1
  /\ UNCHANGED << oauth_vars, flow_vars, client_vars, args, key_file, api_key, disk0, disk, stdout, pc, result, chat_id, next_page_token,
                  reconnect_until, incoming, stream_live, sigint_flag, sigterm_flag,
                  delivered, opens, faults, signalled >>

\* SIGINT reaches the process.  Before the first ctrl_c() no handler is set and
\* the process is killed.  Afterwards only a ctrl_c() future that is being
\* awaited sees it: line 334 and line 358 make a new future in every select,
\* and none exists while attempt_reconnect! is awaited.
SigInt ==
  /\ pc # "exit"
  /\ signalled' = TRUE
  /\ IF pc \in StartupPcs
       THEN Exit("killed") /\ UNCHANGED sigint_flag
       ELSE sigint_flag' = (pc = "loop") /\ UNCHANGED <<pc, result>>
  /\ UNCHANGED << oauth_vars, flow_vars, client_vars, args, key_file, api_key, disk0, disk, stdout, chat_id, next_page_token, reconnect_until, now,
                  incoming, stream_live, sigterm_flag, delivered, opens, faults >>

\* SIGTERM reaches the process.  Before line 311 it kills the process; after
\* it the one listener made at line 311 keeps the signal until recv() takes it.
SigTerm ==
  /\ pc # "exit"
  /\ signalled' = TRUE
  /\ IF pc \in StartupPcs
       THEN Exit("killed") /\ UNCHANGED sigterm_flag
       ELSE sigterm_flag' = TRUE /\ UNCHANGED <<pc, result>>
  /\ UNCHANGED << oauth_vars, flow_vars, client_vars, args, key_file, api_key, disk0, disk, stdout, chat_id, next_page_token, reconnect_until, now,
                  incoming, stream_live, sigint_flag, delivered, opens, faults >>

\* ------------------------------------------------------------------- loop
\* Variant: the wait grows with the failures counted so far
DeadlineGrows(t, secs) == Some(t + secs * (faults + 1))

\* Variant: the wait is taken for the deadline itself
DeadlineForgetsNow(t, secs) == Some(secs)

\* lines 105-108, 123-126, 49-52, 59-61: Instant::now() + Duration::from_secs(secs)
Deadline(t, secs) == Some(t + secs)

\* Variant: the token advances only with a response that is written
TokenAfterOnlyWhenWritten(message) ==
  IF message.items = <<>> THEN next_page_token ELSE message.next_page_token

\* line 73: the token kept for the next reconnection
TokenAfter(message) == message.next_page_token

\* Variant: a response with a single item is taken for an empty one
HasItemsOffByOne(message) == Len(message.items) > 1

\* line 76: only a response with items is written
HasItems(message) == message.items # <<>>

\* lines 84-86: writeln! and flush on the file; a failed write may leave
\* nothing or a part of the line behind
WriteOutcomes == {"ok", "failed", "torn"}

\* Variant: a line that is written is written twice
WrittenTwice(d, line, w) ==
  CASE w = "ok" -> Some(Append(Append(Unwrap(d), line), line))
    [] w = "torn" -> Some(Append(Unwrap(d), TornLine))
    [] OTHER -> d

\* Variant: a write that reports success leaves the line in a buffer that is
\* never written out
WrittenUnflushed(d, line, w) ==
  CASE w = "torn" -> Some(Append(Unwrap(d), TornLine))
    [] OTHER -> d

Written(d, line, w) ==
  CASE w = "ok" -> Some(Append(Unwrap(d), line))
    [] w = "torn" -> Some(Append(Unwrap(d), TornLine))
    [] OTHER -> d

\* Variant: the write error is dropped and the loop goes on
OnWriteErrorContinues == UNCHANGED <<pc, result>>

\* lines 85-86: the ? on writeln! and flush returns the error from main
OnWriteError == Exit("io_write")

\* handle_stream_message!, lines 68-130, run by the stream branch of the
\* select at line 348
HandleStreamMessage ==
  /\ pc = "loop"
  /\ reconnect_until = None
  /\ IsSome(incoming)
  /\ incoming' = None
  /\ sigint_flag' = FALSE
  /\ LET r == Unwrap(incoming) IN
     IF r.tag = "msg"
     THEN /\ next_page_token' = TokenAfter(r.message)
          /\ delivered' = Append(delivered, r.message)
          /\ UNCHANGED <<reconnect_until, stream_live>>
          /\ IF ~HasItems(r.message)
             THEN UNCHANGED <<disk, stdout, pc, result>>
             ELSE IF args.output_file
             THEN \E w \in WriteOutcomes :
                    /\ disk' = Written(disk, ToJson(r.message), w)
                    /\ IF w = "ok" THEN UNCHANGED <<pc, result>> ELSE OnWriteError
                    /\ UNCHANGED stdout
             ELSE /\ stdout' = Append(stdout, ToJson(r.message))
                  /\ UNCHANGED <<disk, pc, result>>
     ELSE /\ reconnect_until' = Deadline(now, args.reconnect_wait_secs)
          /\ stream_live' = FALSE
          /\ UNCHANGED <<next_page_token, delivered, disk, stdout, pc, result>>
  /\ UNCHANGED << oauth_vars, flow_vars, client_vars, args, key_file, api_key, disk0, chat_id, now, sigterm_flag, opens, faults, signalled >>

\* Variant: a reconnect is started from the loop whether or not one is scheduled
ReconnectTimerAlways ==
  /\ pc = "loop"
  /\ reconnect_until' = None
  /\ sigint_flag' = FALSE
  /\ pc' = "reconnect_connect"
  /\ UNCHANGED << oauth_vars, flow_vars, client_vars, args, key_file, api_key, disk0, disk, stdout, result, chat_id, next_page_token, now, incoming,
                  stream_live, sigterm_flag, delivered, opens, faults, signalled >>

\* Variant: the sleep_until branch is taken without waiting for the deadline
ReconnectTimerEarly ==
  /\ pc = "loop"
  /\ IsSome(reconnect_until)
  /\ reconnect_until' = None
  /\ sigint_flag' = FALSE
  /\ pc' = "reconnect_connect"
  /\ UNCHANGED << oauth_vars, flow_vars, client_vars, args, key_file, api_key, disk0, disk, stdout, result, chat_id, next_page_token, now, incoming,
                  stream_live, sigterm_flag, delivered, opens, faults, signalled >>

\* Variant: the sleep_until branch needs the clock to be past the deadline,
\* which a sleep that ends at the deadline never gives
ReconnectTimerStrict ==
  /\ pc = "loop"
  /\ IsSome(reconnect_until)
  /\ now > Unwrap(reconnect_until)
  /\ reconnect_until' = None
  /\ sigint_flag' = FALSE
  /\ pc' = "reconnect_connect"
  /\ UNCHANGED << oauth_vars, flow_vars, client_vars, args, key_file, api_key, disk0, disk, stdout, result, chat_id, next_page_token, now, incoming,
                  stream_live, sigterm_flag, delivered, opens, faults, signalled >>

\* lines 319-321: the sleep_until branch; attempt_reconnect! starts
ReconnectTimer ==
  /\ pc = "loop"
  /\ IsSome(reconnect_until)
  /\ now >= Unwrap(reconnect_until)
  /\ reconnect_until' = None
  /\ sigint_flag' = FALSE
  /\ pc' = "reconnect_connect"
  /\ UNCHANGED << oauth_vars, flow_vars, client_vars, args, key_file, api_key, disk0, disk, stdout, result, chat_id, next_page_token, now, incoming,
                  stream_live, sigterm_flag, delivered, opens, faults, signalled >>

\* Variant: a failed reconnect is returned from main, as the first connect is
ReconnectConnectFailFast ==
  /\ pc = "reconnect_connect"
  /\ \/ /\ pc' = "reconnect_stream"
        /\ UNCHANGED <<reconnect_until, faults, result>>
     \/ /\ faults < MaxFaults
        /\ faults' = faults + 1
        /\ Exit("connect")
        /\ UNCHANGED reconnect_until
  /\ UNCHANGED << oauth_vars, flow_vars, client_vars, args, key_file, api_key, disk0, disk, stdout, chat_id, next_page_token, now, incoming,
                  stream_live, sigint_flag, sigterm_flag, delivered, opens, signalled >>

\* Variant: a failed connect returns to the loop without a new deadline, so
\* the loop polls the stream that has already failed
ReconnectConnectNoDeadline ==
  /\ pc = "reconnect_connect"
  /\ \/ /\ pc' = "reconnect_stream"
        /\ UNCHANGED <<reconnect_until, faults>>
     \/ /\ faults < MaxFaults
        /\ faults' = faults + 1
        /\ reconnect_until' = None
        /\ pc' = "loop"
  /\ UNCHANGED << oauth_vars, flow_vars, client_vars, args, key_file, api_key, disk0, disk, stdout, result, chat_id, next_page_token, now, incoming,
                  stream_live, sigint_flag, sigterm_flag, delivered, opens, signalled >>

\* attempt_reconnect!, line 36 and lines 56-62: YouTubeClient::connect
ReconnectConnect ==
  /\ pc = "reconnect_connect"
  /\ \/ /\ pc' = "reconnect_stream"
        /\ UNCHANGED <<reconnect_until, faults>>
     \/ /\ faults < MaxFaults
        /\ faults' = faults + 1
        /\ reconnect_until' = Deadline(now, args.reconnect_wait_secs)
        /\ pc' = "loop"
  /\ UNCHANGED << oauth_vars, flow_vars, client_vars, args, key_file, api_key, disk0, disk, stdout, result, chat_id, next_page_token, now, incoming,
                  stream_live, sigint_flag, sigterm_flag, delivered, opens, signalled >>

\* Variant: a failed stream_comments makes the next attempt start without a
\* page token
ReconnectStreamResetsToken ==
  /\ pc = "reconnect_stream"
  /\ pc' = "loop"
  /\ opens' = Append(opens, OpenRequest)
  /\ \/ /\ stream_live' = TRUE
        /\ incoming' = None
        /\ UNCHANGED <<reconnect_until, faults, next_page_token>>
     \/ /\ faults < MaxFaults
        /\ faults' = faults + 1
        /\ reconnect_until' = Deadline(now, args.reconnect_wait_secs)
        /\ next_page_token' = None
        /\ UNCHANGED <<stream_live, incoming>>
  /\ UNCHANGED << oauth_vars, flow_vars, client_vars, args, key_file, api_key, disk0, disk, stdout, result, chat_id, now,
                  sigint_flag, sigterm_flag, delivered, signalled >>

\* attempt_reconnect!, lines 38-54: stream_comments on the new client
ReconnectStream ==
  /\ pc = "reconnect_stream"
  /\ pc' = "loop"
  /\ opens' = Append(opens, OpenRequest)
  /\ \/ /\ stream_live' = TRUE
        /\ incoming' = None
        /\ UNCHANGED <<reconnect_until, faults>>
     \/ /\ faults < MaxFaults
        /\ faults' = faults + 1
        /\ reconnect_until' = Deadline(now, args.reconnect_wait_secs)
        /\ UNCHANGED <<stream_live, incoming>>
  /\ UNCHANGED << oauth_vars, flow_vars, client_vars, args, key_file, api_key, disk0, disk, stdout, result, chat_id, next_page_token, now,
                  sigint_flag, sigterm_flag, delivered, signalled >>

\* Variant: the signal is reported but the loop is not left
BreakStaysInLoop == result' = "shutdown" /\ pc' = pc

\* break, then "Shutdown complete" and Ok(()): lines 336, 341, 360, 365, 423-424
Break == Exit("shutdown")

\* lines 334-337 and 358-361: the ctrl_c() branch of either select
CtrlC ==
  /\ pc = "loop"
  /\ sigint_flag
  /\ Break
  /\ UNCHANGED << oauth_vars, flow_vars, client_vars, args, key_file, api_key, disk0, disk, stdout, chat_id, next_page_token, reconnect_until, now,
                  incoming, stream_live, sigint_flag, sigterm_flag, delivered, opens,
                  faults, signalled >>

\* lines 339-342 and 363-366: the sigterm.recv() branch of either select
SigtermRecv ==
  /\ pc = "loop"
  /\ sigterm_flag
  /\ Break
  /\ sigterm_flag' = FALSE
  /\ UNCHANGED << oauth_vars, flow_vars, client_vars, args, key_file, api_key, disk0, disk, stdout, chat_id, next_page_token, reconnect_until, now,
                  incoming, stream_live, sigint_flag, delivered, opens, faults,
                  signalled >>

Next ==
  \/ Startup
  \/ FetchChatId
  \/ InitialConnect
  \/ InitialStream
  \/ ServerDeliver
  \/ Tick
  \/ SigInt
  \/ SigTerm
  \/ HandleStreamMessage
  \/ ReconnectTimer
  \/ ReconnectConnect
  \/ ReconnectStream
  \/ CtrlC
  \/ SigtermRecv

Spec == Init /\ [][Next]_vars

\* ----------------------------------------------------------------- claims
Last(q) == q[Len(q)]

\* The Resume Log: the output file, or standard output when no file is given
ResumeLog ==
  IF args.output_file THEN (IF disk = None THEN <<>> ELSE Unwrap(disk)) ELSE stdout

InitialLog == IF disk0 = None THEN <<>> ELSE Unwrap(disk0)

\* The lines this run added to the log
Appended == SubSeq(ResumeLog, Len(InitialLog) + 1, Len(ResumeLog))

\* The lines of the delivered responses that carry items, in delivery order
ExpectedLines ==
  LET withItems == SelectSeq(delivered, LAMBDA m : m.items # <<>>)
  IN  [i \in 1..Len(withItems) |-> ToJson(withItems[i])]

RECURSIVE IsSubSeq(_, _)
IsSubSeq(q, t) ==
  IF q = <<>> THEN TRUE
  ELSE IF t = <<>> THEN FALSE
  ELSE IF Head(q) = Head(t) THEN IsSubSeq(Tail(q), Tail(t))
  ELSE IsSubSeq(q, Tail(t))

\* The stream branch of the select takes a response / an error or the end
ResponseTaken ==
  /\ pc = "loop"
  /\ IsSome(incoming)
  /\ Unwrap(incoming).tag = "msg"
  /\ delivered' = Append(delivered, Unwrap(incoming).message)

StreamFaultTaken ==
  /\ pc = "loop"
  /\ reconnect_until = None
  /\ IsSome(incoming)
  /\ Unwrap(incoming).tag \in {"err", "end"}
  /\ incoming' = None

\* C1: log-then-advance.  In no state does next_page_token equal the token of a
\* delivered response with items whose line is not in the log yet.
LogThenAdvance ==
  \A i \in 1..Len(delivered) :
    (delivered[i].items # <<>> /\ next_page_token = delivered[i].next_page_token)
      => \E j \in 1..Len(Appended) : Appended[j] = ToJson(delivered[i])

\* C2: at-least-once delivery.  Unless an append failed, every delivered response
\* with items has its line among the lines added to the log, in delivery order,
\* whatever stream errors, stream ends and reconnects came in between.
AtLeastOnce == result # "io_write" => IsSubSeq(ExpectedLines, Appended)

\* C2 witness: a response, a stream fault, a reconnect from that response's
\* token, a second response; both lines are in the log, in that order.
AtLeastOnceWitness ==
  /\ result = "running"
  /\ delivered = << [items |-> <<[id |-> "m1", live_chat_id |-> Some("c1")]>>,
                     next_page_token |-> Some("a")],
                    [items |-> <<[id |-> "m1", live_chat_id |-> Some("c1")]>>,
                     next_page_token |-> Some("b")] >>
  /\ Len(opens) = 2
  /\ opens[1].page_token = None
  /\ opens[2].page_token = Some("a")
  /\ Appended = << ToJson(delivered[1]), ToJson(delivered[2]) >>

\* C3: empty-batch non-persistence.  Taking a response without items leaves the
\* log as it is and sets next_page_token to the response's token; every
\* stream_comments request carries the next_page_token of that moment.
EmptyBatchNotPersisted ==
  [][ /\ (ResponseTaken /\ Unwrap(incoming).message.items = <<>>)
           => /\ ResumeLog' = ResumeLog
              /\ next_page_token' = Unwrap(incoming).message.next_page_token
      /\ (opens' # opens) => Last(opens').page_token = next_page_token ]_vars

\* C3 witness: a fresh run received only an empty response with token "b", wrote
\* nothing, and reconnected with "b".
EmptyBatchWitness ==
  /\ delivered = << [items |-> <<>>, next_page_token |-> Some("b")] >>
  /\ Appended = <<>>
  /\ Len(opens) = 2
  /\ opens[1].page_token = None
  /\ opens[2].page_token = Some("b")

\* C4: reconnect continuity.  Once a response has been received, every
\* stream_comments request carries the token of the last response received, and
\* that token is never absent.
ReconnectContinuity ==
  [][ (opens' # opens /\ delivered # <<>>)
        => /\ Last(opens').page_token = Last(delivered).next_page_token
           /\ IsSome(Last(opens').page_token) ]_vars

\* C5: cancellation priority.  When a signal branch of the select is ready, the
\* loop handles no response and starts no reconnect: the token and the log stay
\* as they are and main stays in the select or leaves the loop.
CancellationPriority ==
  [][ (pc = "loop" /\ (sigint_flag \/ sigterm_flag))
        => /\ delivered' = delivered
           /\ next_page_token' = next_page_token
           /\ ResumeLog' = ResumeLog
           /\ pc' \in {"loop", "exit"} ]_vars

\* C6: cancellation from any state.  Once a signal has reached the process, no
\* further response is handled, no further stream_comments request is made, and
\* the signal stays pending until main has left the loop.
CancellationFromAnyState ==
  [][ signalled
        => /\ delivered' = delivered
           /\ opens' = opens
           /\ ResumeLog' = ResumeLog
           /\ (pc' # "exit" => (sigint_flag' \/ sigterm_flag')) ]_vars

\* C7: Terminated is absorbing.  After a signal branch was taken nothing is
\* appended to the log, no stream_comments request is made and the stream is
\* not polled.
TerminatedAbsorbing ==
  [][ result = "shutdown"
        => /\ ResumeLog' = ResumeLog
           /\ opens' = opens
           /\ delivered' = delivered
           /\ incoming' = incoming
           /\ pc' = "exit"
           /\ result' = "shutdown" ]_vars

\* C7 witness: main left the loop by a signal branch while a response was ready.
TerminatedWitness ==
  /\ result = "shutdown"
  /\ pc = "exit"
  /\ IsSome(incoming)
  /\ Unwrap(incoming).tag = "msg"
  /\ Len(delivered) = 1

\* C8: when next() yields an error or the end of the stream, reconnect_until is
\* set to now + reconnect_wait_secs (not in the past), next_page_token and the
\* log are unchanged, and main stays in the loop.
StreamFaultSchedulesReconnect ==
  [][ StreamFaultTaken
        => /\ reconnect_until' = Some(now + args.reconnect_wait_secs)
           /\ Unwrap(reconnect_until') >= now
           /\ next_page_token' = next_page_token
           /\ ResumeLog' = ResumeLog
           /\ pc' = "loop"
           /\ result' = "running" ]_vars

\* C8 witness: the first stream failed after one response; the deadline lies
\* ahead and the token of that response is kept.
StreamFaultWitness ==
  /\ pc = "loop"
  /\ result = "running"
  /\ faults = 1
  /\ Len(opens) = 1
  /\ Len(delivered) = 1
  /\ IsSome(next_page_token)
  /\ IsSome(reconnect_until)
  /\ Unwrap(reconnect_until) > now

\* C9 as stated: no failure of connect or stream_comments ends the process.
ConnectErrorNeverExits == result \notin {"connect", "stream_start"}

\* C9 amended: a failed connect or stream_comments of a reconnect sets
\* reconnect_until to now + reconnect_wait_secs and keeps main in the loop; once
\* in the loop main leaves it only by a signal branch or a failed write; a
\* failed connect or stream_comments ends the process only at start-up, before
\* any response and with at most the first request made.
ReconnectErrorsRecovered ==
  [][ /\ (pc \in {"reconnect_connect", "reconnect_stream"} /\ faults' # faults)
           => /\ pc' = "loop"
              /\ result' = "running"
              /\ reconnect_until' = Some(now + args.reconnect_wait_secs)
      /\ (pc \in {"loop", "reconnect_connect", "reconnect_stream"} /\ pc' = "exit")
           => result' \in {"shutdown", "io_write"}
      /\ (result' \in {"connect", "stream_start"})
           => (pc \in {"connect", "stream", "exit"} /\ Len(opens') <= 1
               /\ delivered' = <<>>) ]_vars

\* C9 witness: after the stream failed, the connect of the reconnect failed as
\* well and main waits for the next deadline.
ReconnectErrorWitness ==
  /\ pc = "loop"
  /\ result = "running"
  /\ faults = 2
  /\ Len(opens) = 1
  /\ IsSome(reconnect_until)

\* C10: a response with items whose line did not reach the log ends main with
\* the write error, and after that nothing is polled, requested or written.
AppendFailureIsFatal ==
  [][ /\ ( /\ ResponseTaken
           /\ Unwrap(incoming).message.items # <<>>
           /\ ResumeLog' # Append(ResumeLog, ToJson(Unwrap(incoming).message)) )
           => (pc' = "exit" /\ result' = "io_write")
      /\ result = "io_write"
           => /\ pc' = "exit"
              /\ UNCHANGED <<delivered, opens, disk, stdout, incoming>> ]_vars

\* C10 witness: the first response was written, the write of the second failed
\* and left nothing behind.
AppendFailureWitness ==
  /\ result = "io_write"
  /\ pc = "exit"
  /\ Len(delivered) = 2
  /\ delivered[1].items # <<>>
  /\ Appended = << ToJson(delivered[1]) >>

\* The resume block found no chat id in the log the process started with
NoResumePoint ==
  /\ args.resume
  /\ args.output_file
  /\ ResumeInfo(disk0).chat_id = None

\* C11 as stated: when resume is requested and the log gives no resume point,
\* start-up ends with the configuration error (or an I/O error before it) and
\* the chat id is never taken from the resolver - whether or not a video id
\* was given as well.
ResumeNeverDowngraded ==
  NoResumePoint =>
    /\ pc \in {"start", "exit"}
    /\ result \in {"running", "config", "io_key", "io_open", "io_read", "killed"}

\* C11: when resume is requested and the log gives no resume point, start-up
\* ends with the configuration error only if no video id was given; with a
\* video id the chat id comes from the resolver and the first request carries
\* no page token.
ResumeFallsBackToVideoId ==
  /\ (NoResumePoint /\ ~args.video_id) =>
       /\ pc \in {"start", "exit"}
       /\ result \in {"running", "config", "io_key", "io_open", "io_read", "killed"}
       /\ opens = <<>>
  /\ (NoResumePoint /\ args.video_id /\ opens # <<>>) =>
       /\ opens[1].page_token = None
       /\ \E c \in ChatIds : opens[1].live_chat_id = Some(c)

\* C11 witness: resume over an existing log without a usable last line, a
\* video id given: the first stream was requested with the resolver's chat id.
ResumeFallbackWitness ==
  /\ NoResumePoint
  /\ args.video_id
  /\ disk0 # None
  /\ pc = "loop"
  /\ Len(opens) = 1
  /\ opens[1].live_chat_id = Some("c2")

\* The cursor a record of the log stands for: the chat id embedded in its first
\* item and its page token
CursorOf(l) == [chat_id |-> l.items[1].live_chat_id, token |-> l.token]

\* C12: at every point just after a successful append, the resume block applied
\* to the log gives the cursor of the last record; and a run that resumes from
\* a log ending in a record sends its first request with that record's cursor.
IdempotentResume ==
  /\ ( /\ args.output_file
       /\ Appended # <<>>
       /\ Last(Appended).kind = "json" )
       => ResumeInfo(disk) = CursorOf(Last(Appended))
  /\ ( /\ args.resume
       /\ args.output_file
       /\ IsSome(read_last_line(disk0))
       /\ Unwrap(read_last_line(disk0)).kind = "json"
       /\ Unwrap(read_last_line(disk0)).items # <<>>
       /\ opens # <<>> )
       => /\ opens[1].live_chat_id = CursorOf(Unwrap(read_last_line(disk0))).chat_id
          /\ opens[1].page_token = CursorOf(Unwrap(read_last_line(disk0))).token

\* ---------------------------------------------------------------- scenario
\* The run of the scenario: a fresh start on an absent log, against a server
\* that yields three responses on the first stream, ends it, and yields one
\* more on the stream opened by the reconnect.
ScenarioItem(id) == [id |-> id, live_chat_id |-> Some("c2")]

ScenarioFirstStream ==
  << [items |-> << ScenarioItem("m1") >>, next_page_token |-> Some("a")],
     [items |-> <<>>,                     next_page_token |-> Some("b")],
     [items |-> << ScenarioItem("m2") >>, next_page_token |-> Some("c")] >>

ScenarioSecondStream ==
  << [items |-> << ScenarioItem("m3") >>, next_page_token |-> Some("d")] >>

ScenarioInit ==
  /\ Init
  /\ args.video_id
  /\ ~args.resume
  /\ args.output_file
  /\ disk = None

\* stream.next() of the scripted server
ScenarioDeliver ==
  /\ pc # "exit"
  /\ stream_live
  /\ incoming = None
  /\ \/ /\ Len(opens) = 1
        /\ Len(delivered) < Len(ScenarioFirstStream)
        /\ incoming' = Some([tag |-> "msg",
                             message |-> ScenarioFirstStream[Len(delivered) + 1]])
        /\ UNCHANGED faults
     \/ /\ Len(opens) = 1
        /\ Len(delivered) = Len(ScenarioFirstStream)
        /\ incoming' = Some([tag |-> "end", message |-> NoResponse])
        /\ faults' = faults + 1
     \/ /\ Len(opens) > 1
        /\ Len(delivered) = Len(ScenarioFirstStream)
        /\ incoming' = Some([tag |-> "msg", message |-> ScenarioSecondStream[1]])
        /\ UNCHANGED faults
  /\ UNCHANGED << oauth_vars, flow_vars, client_vars, args, key_file, api_key, disk0, disk, stdout, pc, result, chat_id, next_page_token,
                  reconnect_until, now, stream_live, sigint_flag, sigterm_flag,
                  delivered, opens, signalled >>

ScenarioNext ==
  \/ Startup
  \/ FetchChatId
  \/ InitialConnect
  \/ InitialStream
  \/ ScenarioDeliver
  \/ Tick
  \/ SigInt
  \/ SigTerm
  \/ HandleStreamMessage
  \/ ReconnectTimer
  \/ ReconnectConnect
  \/ ReconnectStream
  \/ CtrlC
  \/ SigtermRecv

SpecScenario == ScenarioInit /\ [][ScenarioNext]_vars

\* The scenario has run to its end: the four responses were handed to the loop,
\* the end of the first stream was the only failure, and no write failed.
ScenarioDone ==
  /\ Len(delivered) = Len(ScenarioFirstStream) + Len(ScenarioSecondStream)
  /\ incoming = None
  /\ faults = 1
  /\ result # "io_write"

\* C13: at the end of the scenario the log holds exactly three lines with
\* tokens a, c, d in that order, the reconnect request carried token c, and
\* the cursor the resume block recovers from the log has token d.
ScenarioOutcome ==
  ScenarioDone =>
    /\ Len(Unwrap(disk)) = 3
    /\ [ i \in 1..3 |-> Unwrap(disk)[i].token ] = << Some("a"), Some("c"), Some("d") >>
    /\ Len(opens) = 2
    /\ opens[2].page_token = Some("c")
    /\ ResumeInfo(disk).token = Some("d")

\* The page token the first request is sent with: absent, or the one the
\* resume block recovered
InitialToken ==
  IF args.resume /\ args.output_file THEN ResumeInfo(disk0).token ELSE None

\* C14 as stated: in every state the in-memory page token is the initial token
\* (absent or recovered) or the token of a response whose line this run has
\* already put in the log.
CursorOnlyRecorded ==
  \/ next_page_token \in {None, InitialToken}
  \/ \E i \in 1..Len(Appended) :
       /\ Appended[i].kind = "json"
       /\ Appended[i].token = next_page_token

\* C14: in every state the in-memory page token is the initial token until a
\* response is taken, and from then on the token of the last response taken;
\* that response is the last line of the log when it has items and its write
\* did not fail, and it has no line when it is empty.
CursorIsLastResponse ==
  /\ delivered = <<>> => next_page_token \in {None, InitialToken}
  /\ (delivered = <<>> /\ opens # <<>>) => next_page_token = InitialToken
  /\ delivered # <<>> => next_page_token = Last(delivered).next_page_token
  /\ ( /\ delivered # <<>>
       /\ Last(delivered).items # <<>>
       /\ result # "io_write" )
       => /\ Appended # <<>>
          /\ Last(Appended) = ToJson(Last(delivered))

\* C14 witness: after a recorded response with token a, an empty response with
\* token b was taken: the cursor is b and the log ends with the line of a.
CursorAheadOfLogWitness ==
  /\ Len(delivered) = 2
  /\ delivered[1].items # <<>>
  /\ delivered[1].next_page_token = Some("a")
  /\ delivered[2].items = <<>>
  /\ delivered[2].next_page_token = Some("b")
  /\ incoming = None
  /\ next_page_token = Some("b")
  /\ Appended = << ToJson(delivered[1]) >>

\* ------------------------------------------------------------- credentials
\* The file at --api-key-path is given a new key while the process runs
RotateKey ==
  /\ pc # "exit"
  /\ key_file = Some("k1")
  /\ key_file' = Some("k2")
  /\ UNCHANGED << oauth_vars, flow_vars, client_vars, args, api_key, disk0, disk, stdout, pc, result, chat_id,
                  next_page_token, reconnect_until, now, incoming, stream_live,
                  sigint_flag, sigterm_flag, delivered, opens, faults, signalled >>

CredNext ==
  \/ Next
  \/ RotateKey

SpecCred == Init /\ [][CredNext]_vars

\* C15: every request that opens a stream, the first and each reconnect,
\* carries the key the key file holds at that moment; at the least it never
\* carries again a key that an earlier request carried and that the file no
\* longer holds.
CredentialFreshness ==
  [][ (opens' # opens) =>
        \/ Last(opens').api_key = key_file
        \/ \A i \in 1..Len(opens) : opens[i].api_key # Last(opens').api_key ]_vars

\* ----------------------------------------------------------------- recovery
\* The lines a log may hold when the resume block reads it
LogLines ==
  { Line("json", "camel", << [id |-> "m1", live_chat_id |-> Some("c1")] >>, Some("a")),
    Line("json", "camel", << [id |-> "m2", live_chat_id |-> Some("c1")] >>, Some("b")),
    Line("json", "snake", << [id |-> "m1", live_chat_id |-> Some("c1")] >>, Some("a")),
    Line("json", "camel", <<>>, Some("b")),
    BlankLine, GarbageLine, TornLine }

\* The logs of at most MaxLogLines lines, and the absent log
RecoverLogs ==
  {None} \cup { Some(q) : q \in UNION { [1..n -> LogLines] : n \in 0..MaxLogLines } }

\* A start with --resume and --output-file on any of these logs
RecoverInit ==
  /\ InitFrom(RecoverLogs)
  /\ args.resume
  /\ args.output_file

\* main up to the loop
RecoverNext ==
  \/ Startup
  \/ FetchChatId
  \/ InitialConnect
  \/ InitialStream

SpecRecover == RecoverInit /\ [][RecoverNext]_vars

\* The last line of q that is not blank, if any
FinalLine(q) ==
  IF \A i \in 1..Len(q) : q[i].kind = "blank" THEN None
  ELSE Some(q[CHOOSE i \in 1..Len(q) :
                /\ q[i].kind # "blank"
                /\ \A j \in (i + 1)..Len(q) : q[j].kind = "blank"])

\* A record the resume block can take a cursor from
WellFormed(l) ==
  /\ l.kind = "json"
  /\ l.keys = "camel"
  /\ l.items # <<>>
  /\ IsSome(l.items[1].live_chat_id)

\* The log is absent, empty or blank, or its last non-blank line is not JSON
MissingOrMalformed(d) ==
  \/ d = None
  \/ FinalLine(Unwrap(d)) = None
  \/ Unwrap(FinalLine(Unwrap(d))).kind \in {"garbage", "torn"}

\* C16: start-up with resume on a log that is absent, empty, blank or ends in
\* a malformed line does not fail in the resume block: it goes on without a
\* cursor, to the resolver when a video id is given and to the configuration
\* error when none is; only the I/O failures of reading the key, opening the
\* file or reading it end it otherwise.
RecoveryNeverFails ==
  [][ (pc = "start" /\ pc' # "start" /\ MissingOrMalformed(disk)) =>
        \/ result' \in {"io_key", "io_open", "io_read"}
        \/ /\ args.video_id
           /\ result' = "running"
           /\ pc' = "fetch"
           /\ chat_id' = None
           /\ next_page_token' = None
        \/ /\ ~args.video_id
           /\ result' = "config" ]_vars

\* C16 witness: the log ends in a malformed line after a well-formed one, and
\* the run went on to the resolver without a cursor.
MalformedLastLineWitness ==
  /\ disk0 # None
  /\ Len(Unwrap(disk0)) = 2
  /\ WellFormed(Unwrap(disk0)[1])
  /\ Unwrap(disk0)[2].kind = "garbage"
  /\ pc = "fetch"
  /\ chat_id = None
  /\ next_page_token = None

\* The last well-formed record of q, if any
LastWellFormed(q) ==
  IF \A i \in 1..Len(q) : ~WellFormed(q[i]) THEN None
  ELSE Some(q[CHOOSE i \in 1..Len(q) :
                /\ WellFormed(q[i])
                /\ \A j \in (i + 1)..Len(q) : ~WellFormed(q[j])])

\* The cursor of an optional record: none without a record
CursorOfOption(o) ==
  IF o = None THEN [chat_id |-> None, token |-> None] ELSE CursorOf(Unwrap(o))

\* The log as the resume block finds it: an absent file has been created empty
LinesAtResume == IF disk = None THEN <<>> ELSE Unwrap(disk)

DurableAppend ==
  [][ args.output_file =>
        /\ ( /\ ResponseTaken
             /\ Unwrap(incoming).message.items # <<>>
             /\ result' # "io_write" )
             => /\ disk' # None
                /\ Len(Unwrap(disk')) = Len(Unwrap(disk)) + 1
                /\ Last(Unwrap(disk')) = ToJson(Unwrap(incoming).message)
        /\ \A i \in 1..Len(Appended) :
             /\ Len(Appended') >= i
             /\ Appended'[i] = Appended[i] ]_vars

\* C18 witness: the process ended in the middle of its second write, which left
\* a torn line; the line of the first response is still in the file before it.
DurableAppendWitness ==
  /\ args.output_file
  /\ pc = "exit"
  /\ result = "io_write"
  /\ Len(delivered) = 2
  /\ Appended = << ToJson(delivered[1]), TornLine >>

\* The content of the output file, an absent file having none
FileLines == IF disk = None THEN <<>> ELSE Unwrap(disk)

\* C19: every step leaves the content the file had as a prefix of the content
\* it has afterwards: lines are added at the end and none is removed or changed.
AppendOnlyLog ==
  [][ /\ Len(FileLines') >= Len(FileLines)
      /\ SubSeq(FileLines', 1, Len(FileLines)) = FileLines ]_vars

\* C19 witness: a run resumed on an existing log has reconnected and added two
\* lines behind the one it found.
AppendOnlyWitness ==
  /\ args.resume
  /\ Len(InitialLog) = 1
  /\ chat_id = Some("c1")
  /\ Len(opens) = 2
  /\ Len(FileLines) = 3
  /\ FileLines[1] = InitialLog[1]
  /\ FileLines[2] = ToJson(delivered[1])
  /\ FileLines[3] = ToJson(delivered[2])

\* C20: every step that sets a reconnect deadline - after a stream error, a
\* stream end, a failed connect or a failed stream start - sets it to the
\* current time plus the configured wait, and the configured wait never changes.
FixedDelayBackoff ==
  [][ /\ (reconnect_until = None /\ IsSome(reconnect_until'))
           => reconnect_until' = Some(now + args.reconnect_wait_secs)
      /\ args'.reconnect_wait_secs = args.reconnect_wait_secs ]_vars

\* C20 witness: with a wait of one second, the stream failed at time 0 and the
\* reconnect failed at time 1: the second deadline is again one second ahead.
FixedDelayWitness ==
  /\ args.reconnect_wait_secs = 1
  /\ pc = "loop"
  /\ faults = 2
  /\ Len(opens) = 1
  /\ now = 1
  /\ reconnect_until = Some(2)

\* ---------------------------------------------------------------- progress
\* A fresh start without resume, under the scheduling the runtime gives: the
\* clock advances while a sleep is pending, an elapsed sleep_until branch is
\* taken unless a signal branch is, and an awaited connect or stream_comments
\* returns.
LiveInit ==
  /\ Init
  /\ args.video_id
  /\ ~args.resume
  /\ ~args.api_key_path
  /\ disk = None

SpecLive ==
  /\ LiveInit
  /\ [][Next]_vars
  /\ WF_vars(Tick)
  /\ WF_vars(ReconnectTimer)
  /\ WF_vars(ReconnectConnect)
  /\ WF_vars(ReconnectStream)

\* C21: while a reconnect deadline is pending and has not elapsed, no connect
\* is started and no stream is requested; a reconnect attempt starts only from
\* an elapsed deadline, which it clears, and makes at most one stream request,
\* with the current chat id and the current page token; and a pending deadline
\* always leads to such an attempt or to the end of the process.
OneOpenPerDeadline ==
  /\ [][ /\ (IsSome(reconnect_until) /\ now < Unwrap(reconnect_until))
              => /\ opens' = opens
                 /\ pc' \notin {"reconnect_connect", "reconnect_stream"}
         /\ (pc' = "reconnect_connect" /\ pc # "reconnect_connect")
              => /\ pc = "loop"
                 /\ IsSome(reconnect_until)
                 /\ now >= Unwrap(reconnect_until)
                 /\ reconnect_until' = None
         /\ (pc = "reconnect_connect" /\ pc' # pc)
              => \/ pc' = "reconnect_stream" /\ opens' = opens
                 \/ pc' = "loop" /\ IsSome(reconnect_until') /\ opens' = opens
         /\ (pc = "reconnect_stream" /\ pc' # pc)
              => /\ pc' = "loop"
                 /\ opens' = Append(opens, [ live_chat_id |-> chat_id,
                                             page_token |-> next_page_token,
                                             api_key |-> api_key ])
         /\ (pc = "loop") => opens' = opens ]_vars
  /\ (pc = "loop" /\ IsSome(reconnect_until))
        ~> (pc \in {"reconnect_connect", "exit"})

\* C21 witness: with a wait of one second the stream ended at time 0, the
\* deadline elapsed at time 1, and the one attempt it started has made the
\* second stream request.
OneOpenPerDeadlineWitness ==
  /\ args.reconnect_wait_secs = 1
  /\ pc = "loop"
  /\ now = 1
  /\ faults = 1
  /\ reconnect_until = None
  /\ Len(opens) = 2
  /\ stream_live

\* C22: once the chat id is resolved, from the resolver or from the log, every
\* stream request of the run carries it, whatever the responses contained and
\* whatever failed in between.
ChatIdImmutable ==
  /\ opens # <<>> => IsSome(chat_id)
  /\ \A i \in 1..Len(opens) : opens[i].live_chat_id = chat_id

\* C22 witness: the resolver gave c2, a response carried an item of chat c1,
\* and the reconnect request was sent for c2 again.
ChatIdImmutableWitness ==
  /\ chat_id = Some("c2")
  /\ Len(opens) = 2
  /\ opens[1].live_chat_id = Some("c2")
  /\ opens[2].live_chat_id = Some("c2")
  /\ delivered # <<>>
  /\ delivered[1].items # <<>>
  /\ delivered[1].items[1].live_chat_id = Some("c1")

\* C23: the two signals are interchangeable.  SIGTERM delivered after start-up
\* is kept by its listener until recv() takes it; interchangeable, the first
\* signal to reach the process, whichever it is and whenever it comes, either
\* ends the process at once or is pending after its delivery.
SignalsInterchangeable ==
  [][ (~signalled /\ signalled' /\ pc' # "exit")
        => (sigint_flag' \/ sigterm_flag') ]_vars

\* C24: the trigger is idempotent.  A signal that reaches a process which
\* another signal has reached before finds the cancellation of the first
\* still pending, so that it adds nothing to it.
TriggerIdempotent ==
  [][ ( /\ signalled
        /\ \/ ~sigint_flag /\ sigint_flag'
           \/ ~sigterm_flag /\ sigterm_flag' )
        => (sigint_flag \/ sigterm_flag) ]_vars

\* C25: a failed lookup ends the process with the lookup error: its chat id is
\* never set, no stream is requested, nothing is handled and nothing is written
\* to the log or to standard output; and a run that gets past the lookup has a
\* chat id that the resolver or the log gave.
ResolverFailureFatal ==
  /\ result = "resolver"
       => /\ pc = "exit"
          /\ chat_id = None
          /\ opens = <<>>
          /\ delivered = <<>>
          /\ stdout = <<>>
          /\ (IF disk = None THEN <<>> ELSE Unwrap(disk)) = InitialLog
  /\ pc \in {"connect", "stream", "loop", "reconnect_connect", "reconnect_stream"}
       => \/ \E c \in ChatIds : chat_id = Some(c)
          \/ args.resume /\ IsSome(chat_id) /\ chat_id = ResumeInfo(disk0).chat_id

\* C25 witness: a fresh start on an absent output file whose lookup failed: the
\* file was created by then, and it is empty.
ResolverFailureWitness ==
  /\ result = "resolver"
  /\ pc = "exit"
  /\ ~args.resume
  /\ args.output_file
  /\ disk0 = None
  /\ disk = Some(<<>>)
  /\ opens = <<>>

\* C26: there is one stream at a time.  While a reconnect is scheduled or being
\* attempted, and before the first stream is requested, no stream is live and
\* none has anything ready: a new stream is requested only when the one before
\* it has failed or ended, and it takes its place.
SingleSession ==
  /\ (IsSome(reconnect_until) \/ pc \in {"reconnect_connect", "reconnect_stream"})
       => (~stream_live /\ incoming = None)
  /\ pc \in StartupPcs => (~stream_live /\ incoming = None)
  /\ stream_live => opens # <<>>

\* C26 witness: the first stream ended, the reconnect succeeded, and the stream
\* it opened is the one that has a response ready.
SingleSessionWitness ==
  /\ pc = "loop"
  /\ faults = 1
  /\ Len(opens) = 2
  /\ stream_live
  /\ reconnect_until = None
  /\ delivered = <<>>
  /\ IsSome(incoming)
  /\ Unwrap(incoming).tag = "msg"

\* ---------------------------------------------------------------- bootstrap
\* A start with any arguments on any of the logs of the recovery runs
SpecBootstrap == InitFrom(RecoverLogs) /\ [][RecoverNext]_vars

\* C27: the first stream request carries either a chat id of the resolver and
\* no page token, or - in a run with resume - the chat id and the page token
\* of the same record, the last non-blank line of the log.
BootstrapExclusive ==
  opens # <<>> =>
    \/ /\ \E c \in ChatIds : opens[1].live_chat_id = Some(c)
       /\ opens[1].page_token = None
    \/ /\ args.resume
       /\ IsSome(FinalLine(InitialLog))
       /\ WellFormed(Unwrap(FinalLine(InitialLog)))
       /\ opens[1].live_chat_id = CursorOf(Unwrap(FinalLine(InitialLog))).chat_id
       /\ opens[1].page_token = CursorOf(Unwrap(FinalLine(InitialLog))).token

\* C27 witness: resume with a video id given as well, on a log that ends in a
\* record: the first request carries the record's chat id and token, and the
\* resolver was not used.
BootstrapFromLogWitness ==
  /\ args.resume
  /\ args.video_id
  /\ Len(InitialLog) = 1
  /\ WellFormed(InitialLog[1])
  /\ Len(opens) = 1
  /\ opens[1].live_chat_id = Some("c1")
  /\ opens[1].page_token = InitialLog[1].token

\* C28: with neither --video-id nor --resume, or with --resume and no
\* --output-file, the process ends with the argument error and with nothing
\* done: the key file is not read, the output file is neither created nor
\* changed, no lookup gave a chat id, no stream was requested.
ValidationFirst ==
  ((~args.video_id /\ ~args.resume) \/ (args.resume /\ ~args.output_file)) =>
    /\ pc \in {"start", "exit"}
    /\ result \in {"running", "args", "killed"}
    /\ api_key = None
    /\ disk = disk0
    /\ chat_id = None
    /\ opens = <<>>
    /\ stdout = <<>>

\* C28 witness: no video id and no resume, an output file that does not exist:
\* the process has ended with the argument error and the file still does not
\* exist.
ValidationFirstWitness ==
  /\ ~args.video_id
  /\ ~args.resume
  /\ args.output_file
  /\ args.api_key_path
  /\ result = "args"
  /\ pc = "exit"
  /\ disk = None
  /\ api_key = None

\* C29 as stated: in every state of every run, the lines the run has added to
\* the log are exactly the lines of the responses with items that next() has
\* handed over, in that order, one line each.
ExactlyDeliveredLines == Appended = ExpectedLines

\* All but the last element of a sequence
Front(q) == SubSeq(q, 1, Len(q) - 1)

\* C29: the lines a run has added are exactly the lines of the responses with
\* items it was handed, in that order and one each - unless a write failed:
\* then main has ended, the lines are those of the responses before the one
\* whose write failed, and a part of that one's line may follow them.
NoDuplication ==
  /\ result # "io_write" => Appended = ExpectedLines
  /\ result = "io_write" =>
       /\ pc = "exit"
       /\ ExpectedLines # <<>>
       /\ \/ Appended = Front(ExpectedLines)
          \/ Appended = Append(Front(ExpectedLines), TornLine)

\* C29 witness: a response, the end of the stream, a failed reconnect, a
\* reconnect that succeeded, a second response: two lines, in that order.
NoDuplicationWitness ==
  /\ faults = 2
  /\ Len(opens) = 2
  /\ Len(delivered) = 2
  /\ delivered[1].items # <<>>
  /\ delivered[1].next_page_token = Some("a")
  /\ opens[2].page_token = Some("a")
  /\ delivered[2].items # <<>>
  /\ delivered[2].next_page_token = Some("b")
  /\ incoming = None
  /\ Appended = << ToJson(delivered[1]), ToJson(delivered[2]) >>

\* C30: a reconnect attempt that fails, at connect or at stream_comments,
\* leaves the page token, the chat id, the key, the output file, standard
\* output and the responses handled as they were; main is back in the loop
\* with a new deadline and the old stream still not live.
FailedReconnectFrame ==
  [][ (pc \in {"reconnect_connect", "reconnect_stream"} /\ IsSome(reconnect_until'))
        => /\ pc' = "loop"
           /\ reconnect_until' = Some(now + args.reconnect_wait_secs)
           /\ UNCHANGED << next_page_token, chat_id, api_key, disk, stdout,
                           delivered, incoming, stream_live, result, args >>
           /\ ~stream_live' ]_vars

\* C30 witness: the stream request of a reconnect failed after a response with
\* token a had been written: token and log are as before, a deadline is set.
FailedReconnectWitness ==
  /\ pc = "loop"
  /\ faults = 2
  /\ Len(opens) = 2
  /\ ~stream_live
  /\ IsSome(reconnect_until)
  /\ Len(delivered) = 1
  /\ next_page_token = Some("a")
  /\ opens[2].page_token = Some("a")
  /\ Appended = << ToJson(delivered[1]) >>

\* C31: a stream that has yielded an error or has ended is never polled
\* again.  Whenever main is at the top of the loop, either a reconnect
\* deadline is set and the stream held is a dead one (the select of lines
\* 317-343 does not call next()), or no deadline is set and the stream held was
\* opened successfully and has not failed; a result waiting to be taken by
\* next() exists only in the second case.
DeadStreamNeverPolled ==
  pc = "loop" =>
    /\ (reconnect_until = None) <=> stream_live
    /\ IsSome(incoming) => (stream_live /\ reconnect_until = None)

\* C31 witness: the first stream failed, the reconnect after it could not
\* open a stream, and main is back at the top of the loop, waiting again and
\* holding the dead stream.
DeadStreamWitness ==
  /\ pc = "loop"
  /\ IsSome(reconnect_until)
  /\ ~stream_live
  /\ faults = 2
  /\ Len(opens) = 2
  /\ incoming = None

\* C32: reconnect liveness.  Main does not wait on a reconnect deadline for
\* ever: the wait always ends in an attempt to connect, or in a shutdown by a
\* signal.  Open failures being finitely many, every wait that follows a
\* stream error, a stream end or a failed attempt leads to main being back in
\* the loop with a stream that was opened successfully, or to a shutdown by a
\* signal; nothing else ends the process on the way.
Connected == pc = "loop" /\ stream_live /\ reconnect_until = None

ReconnectPending == pc = "loop" /\ IsSome(reconnect_until)

ReconnectLiveness ==
  /\ []<>(~ReconnectPending)
  /\ ReconnectPending ~> (Connected \/ (pc = "exit" /\ result = "shutdown"))
  /\ [][ (ReconnectPending /\ pc' = "exit") => result' = "shutdown" ]_vars

\* C32 witness: the first stream failed at time 0, the attempt made at time 1
\* could not open a stream, and the attempt made at time 2 has: main is
\* connected again, on the third stream request.
ReconnectedWitness ==
  /\ Connected
  /\ args.reconnect_wait_secs = 1
  /\ faults = 2
  /\ Len(opens) = 3
  /\ now = 2
  /\ result = "running"

\* ------------------------------------------------------------ OAuthManager
\* crates/yt-oauth/src/lib.rs.  main is not running while these
\* specifications are checked.
MainIdle ==
  /\ args = [ video_id |-> TRUE, api_key_path |-> FALSE, output_file |-> FALSE,
              resume |-> FALSE, reconnect_wait_secs |-> 0 ]
  /\ key_file = None
  /\ api_key = None
  /\ disk = None
  /\ disk0 = None
  /\ stdout = <<>>
  /\ pc = "start"
  /\ result = "running"
  /\ chat_id = None
  /\ next_page_token = None
  /\ reconnect_until = None
  /\ now = 0
  /\ incoming = None
  /\ stream_live = FALSE
  /\ sigint_flag = FALSE
  /\ sigterm_flag = FALSE
  /\ delivered = <<>>
  /\ opens = <<>>
  /\ faults = 0
  /\ signalled = FALSE

\* The clock of the OAuth model stops here
MaxClock == 3

\* line 28: a token that expires within this many seconds counts as expired
ExpirySkew == 60

\* OAuthToken, lines 8-18 (token_type left out: nothing reads it)
OAuthToken(access, refresh, expires) ==
  [ access_token |-> access, refresh_token |-> refresh, expires_at |-> expires ]

\* Token files load_token may find: one that is fresh for the whole run, one
\* that becomes stale during it, one that is stale from the start
TokenFiles ==
  { OAuthToken("at0", "rt0", ExpirySkew + MaxClock + 1),
    OAuthToken("at0", "rt0", ExpirySkew + 1),
    OAuthToken("at0", "rt1", ExpirySkew) }

\* What the token endpoint may answer to the request of lines 139-143: the
\* request fails, the status is no success, the body is no JSON, or a JSON
\* body with or without access_token, expires_in and refresh_token
RefreshResponses ==
  { [ step |-> s, access_token |-> None, expires_in |-> None, refresh_token |-> None ] :
      s \in {"send", "status", "json"} }
  \cup [ step : {"body"}, access_token : {None, Some("at1"), Some("at2")},
         expires_in : {None, Some(0), Some(ExpirySkew + 2)},
         refresh_token : {None, Some("rt9")} ]

\* Variant: a token counts as expired only once its expiry time has come
is_expired_late(tok, t) == t >= tok.expires_at

\* OAuthToken::is_expired, lines 22-29
is_expired(tok, t) == t + ExpirySkew >= tok.expires_at

\* Variant: a refresh token in the response replaces the stored one
refresh_token_rotates(tok, resp, t) ==
  CASE resp.step = "send" -> [ err |-> Some("send"), token |-> tok ]
    [] resp.step = "status" -> [ err |-> Some("status"), token |-> tok ]
    [] resp.step = "json" -> [ err |-> Some("json"), token |-> tok ]
    [] resp.access_token = None -> [ err |-> Some("access_token"), token |-> tok ]
    [] resp.expires_in = None -> [ err |-> Some("expires_in"), token |-> tok ]
    [] OTHER ->
         [ err |-> None,
           token |-> OAuthToken(Unwrap(resp.access_token),
                                IF IsSome(resp.refresh_token)
                                  THEN Unwrap(resp.refresh_token)
                                  ELSE tok.refresh_token,
                                t + Unwrap(resp.expires_in)) ]

\* OAuthManager::refresh_token, lines 126-191, on the stored token tok at
\* time t when the endpoint answers resp: the error returned, if any, and the
\* token stored afterwards
refresh_token(tok, resp, t) ==
  CASE resp.step = "send" -> [ err |-> Some("send"), token |-> tok ]
    [] resp.step = "status" -> [ err |-> Some("status"), token |-> tok ]
    [] resp.step = "json" -> [ err |-> Some("json"), token |-> tok ]
    [] resp.access_token = None -> [ err |-> Some("access_token"), token |-> tok ]
    [] resp.expires_in = None -> [ err |-> Some("expires_in"), token |-> tok ]
    [] OTHER ->
         [ err |-> None,
           token |-> OAuthToken(Unwrap(resp.access_token), tok.refresh_token,
                                t + Unwrap(resp.expires_in)) ]

\* OAuthManager::load_token, lines 103-106: the file is read and parsed, or
\* the error is returned and the stored token stays
load_token ==
  /\ \/ \E t \in TokenFiles : token' = Some(t) /\ token0' = Some(t)
     \/ UNCHANGED <<token, token0>>
  /\ UNCHANGED << system_time, last_call, main_vars, flow_vars, client_vars >>

\* A second passes
ClockTick ==
  /\ system_time < MaxClock
  /\ system_time' = system_time + 1
  /\ UNCHANGED << token, token0, last_call, main_vars, flow_vars, client_vars >>

\* What a get_access_token call is remembered by
\* (refresh: the answer to the refresh request, None when none was sent)
Call(before, at, refresh, ret, after) ==
  Some([ before |-> before, at |-> at, refresh |-> refresh, ret |-> ret,
         after |-> after ])

\* OAuthManager::get_access_token, lines 109-123
get_access_token ==
  /\ IF token = None
       THEN /\ last_call' = Call(token, system_time, None,
                                 [ tag |-> "err", value |-> "no_token" ], token)
            /\ UNCHANGED token
       ELSE IF is_expired(Unwrap(token), system_time)
       THEN \E resp \in RefreshResponses :
              LET r == refresh_token(Unwrap(token), resp, system_time) IN
                /\ token' = Some(r.token)
                /\ last_call' =
                     Call(token, system_time, Some(resp),
                          IF IsSome(r.err)
                            THEN [ tag |-> "err", value |-> Unwrap(r.err) ]
                            ELSE [ tag |-> "ok", value |-> r.token.access_token ],
                          Some(r.token))
       ELSE /\ last_call' = Call(token, system_time, None,
                                 [ tag |-> "ok", value |-> Unwrap(token).access_token ],
                                 token)
            /\ UNCHANGED token
  /\ UNCHANGED << token0, system_time, main_vars, flow_vars, client_vars >>

OAuthInit ==
  /\ MainIdle
  /\ OAuthIdle
  /\ FlowIdle
  /\ ClientIdle

OAuthNext ==
  \/ load_token
  \/ ClockTick
  \/ get_access_token

SpecOAuth == OAuthInit /\ [][OAuthNext]_vars

\* C33: get_access_token with no token loaded returns an error; with a stored
\* token that expires within 60 seconds (now + 60 >= expires_at) it refreshes
\* first, and then either returns the access token the refresh stored, or, the
\* refresh having failed, returns the error and not an access token; with a
\* token that is not about to expire it returns the stored access token
\* without a refresh.
RefreshFails(resp) ==
  \/ resp.step \in {"send", "status", "json"}
  \/ resp.access_token = None
  \/ resp.expires_in = None

AccessTokenValidOrError ==
  IsSome(last_call) =>
    LET c == Unwrap(last_call) IN
      /\ c.before = None => (c.ret.tag = "err" /\ c.refresh = None)
      /\ c.before # None =>
           LET old == Unwrap(c.before) IN
             /\ IsSome(c.refresh) <=> (c.at + 60 >= old.expires_at)
             /\ (IsSome(c.refresh) /\ ~RefreshFails(Unwrap(c.refresh)))
                  => /\ c.ret = [ tag |-> "ok",
                                  value |-> Unwrap(Unwrap(c.refresh).access_token) ]
                     /\ c.ret.value = Unwrap(c.after).access_token
             /\ (IsSome(c.refresh) /\ RefreshFails(Unwrap(c.refresh)))
                  => (c.ret.tag = "err" /\ c.ret.value # old.access_token)
             /\ c.refresh = None
                  => (c.ret = [ tag |-> "ok", value |-> old.access_token ]
                      /\ c.after = c.before)

\* C33 witness: a token loaded with expiry 61 was fresh at time 0; the call
\* made at time 1 (1 + 60 >= 61) refreshed it and returned the new access
\* token at1.
RefreshedOnCallWitness ==
  /\ IsSome(last_call)
  /\ Unwrap(last_call).at = 1
  /\ Unwrap(last_call).before = Some(OAuthToken("at0", "rt0", 61))
  /\ IsSome(Unwrap(last_call).refresh)
  /\ Unwrap(last_call).ret = [ tag |-> "ok", value |-> "at1" ]
  /\ token = Unwrap(last_call).after

\* C34: a refresh keeps the refresh token.  The stored refresh_token is always
\* the one load_token stored, however many refreshes have succeeded and
\* whatever the endpoint sent; and a refresh that fails, at the request, at the
\* status, at the body, or for want of access_token or expires_in, leaves the
\* stored token exactly as it was.
RefreshKeepsRefreshToken ==
  /\ IsSome(token) =>
       (IsSome(token0) /\ Unwrap(token).refresh_token = Unwrap(token0).refresh_token)
  /\ (IsSome(last_call) /\ IsSome(Unwrap(last_call).refresh)) =>
       LET c == Unwrap(last_call) IN
         IF RefreshFails(Unwrap(c.refresh))
           THEN c.after = c.before
           ELSE Unwrap(c.after).refresh_token = Unwrap(c.before).refresh_token

\* C34 witness: the token loaded as (at0, rt0) has been refreshed twice, the
\* second time by an answer that carried a refresh token of its own, and still
\* holds rt0.
TwoRefreshesWitness ==
  /\ IsSome(token)
  /\ Unwrap(token0).access_token = "at0"
  /\ IsSome(last_call)
  /\ IsSome(Unwrap(last_call).before)
  /\ Unwrap(Unwrap(last_call).before).access_token = "at1"
  /\ Unwrap(last_call).refresh =
       Some([ step |-> "body", access_token |-> Some("at2"),
              expires_in |-> Some(0), refresh_token |-> Some("rt9") ])
  /\ Unwrap(token) = OAuthToken("at2", "rt0", system_time)

\* --------------------------------------------------------- start_auth_flow
\* crates/yt-oauth/src/lib.rs, lines 322-413
\* Callbacks the server answers in a run
MaxCallbacks == 2

\* line 392: Duration::from_secs(300)
AuthTimeoutSecs == 300

\* line 405: Duration::from_millis(500)
PollMillis == 500

\* AuthCallback, lines 350-354: the query of a request to /oauth2callback
CallbackParams ==
  [ code : {None, Some("code1"), Some("code2")}, error : {None, Some("access_denied")} ]

\* callback_handler, lines 356-377: what the handler leaves in code_receiver
callback_handler(receiver, params) ==
  IF IsSome(params.error) THEN receiver
  ELSE IF IsSome(params.code) THEN params.code
  ELSE receiver

\* Variant: the wait is over as soon as the limit is reached
TimedOutAtLimit(e) == e >= AuthTimeoutSecs * 1000

\* line 396: start.elapsed() > timeout
TimedOut(e) == e > AuthTimeoutSecs * 1000

\* lines 322-393: the listener is bound and the server task is spawned, or the
\* bind error is returned before any task exists
StartAuthFlow ==
  /\ flow_pc = "idle"
  /\ \/ /\ flow_pc' = "wait"
        /\ server_handle' = "running"
        /\ UNCHANGED flow_result
     \/ /\ flow_pc' = "returned"
        /\ flow_result' = "bind_err"
        /\ UNCHANGED server_handle
  /\ elapsed' = 0
  /\ UNCHANGED << code_receiver, exchanged, callbacks, last_callback, carried,
                  main_vars, oauth_vars, client_vars >>

\* The server task answers a request to /oauth2callback, lines 356-379.  It
\* does so for as long as the task runs.
Callback ==
  /\ server_handle = "running"
  /\ callbacks < MaxCallbacks
  /\ \E params \in CallbackParams :
       /\ code_receiver' = callback_handler(code_receiver, params)
       /\ last_callback' = Some(params)
       /\ carried' = IF IsSome(params.code)
                       THEN carried \cup {Unwrap(params.code)}
                       ELSE carried
  /\ callbacks' = callbacks + 1
  /\ UNCHANGED << flow_pc, server_handle, elapsed, flow_result, exchanged,
                  main_vars, oauth_vars, client_vars >>

\* One round of the loop of lines 395-406, with the abort of line 409 when the
\* loop is left with a code.  The sleep lasts its 500 ms or longer.
PollCode ==
  /\ flow_pc = "wait"
  /\ IF TimedOut(elapsed)
       THEN /\ flow_pc' = "returned"
            /\ flow_result' = "timeout"
            /\ UNCHANGED << server_handle, elapsed, exchanged >>
       ELSE IF IsSome(code_receiver)
       THEN /\ exchanged' = code_receiver
            /\ server_handle' = "aborted"
            /\ flow_pc' = "exchange"
            /\ UNCHANGED << elapsed, flow_result >>
       ELSE /\ \E late \in {0, PollMillis} : elapsed' = elapsed + PollMillis + late
            /\ UNCHANGED << flow_pc, flow_result, server_handle, exchanged >>
  /\ UNCHANGED << code_receiver, callbacks, last_callback, carried, main_vars, oauth_vars, client_vars >>

\* line 412 and exchange_code, lines 248-319: the token or the error is
\* returned
ExchangeCode ==
  /\ flow_pc = "exchange"
  /\ flow_pc' = "returned"
  /\ flow_result' \in {"ok", "exchange_err"}
  /\ UNCHANGED << code_receiver, server_handle, elapsed, exchanged, callbacks,
                  last_callback, carried, main_vars, oauth_vars, client_vars >>

FlowInit ==
  /\ MainIdle
  /\ OAuthIdle
  /\ FlowIdle
  /\ ClientIdle

FlowNext ==
  \/ StartAuthFlow
  \/ Callback
  \/ PollCode
  \/ ExchangeCode

\* The sleep of line 405 ends and the lock of line 400 is granted; the request
\* of exchange_code is answered or fails.
SpecAuthFlow ==
  /\ FlowInit
  /\ [][FlowNext]_vars
  /\ WF_vars(PollCode)
  /\ WF_vars(ExchangeCode)

\* C35: start_auth_flow, once it waits for a code, returns.  The timeout error
\* is returned only when more than 300 seconds have elapsed, and a wait in
\* which no callback stores a code ends in it.  A callback that carries an
\* error parameter, or no code, leaves code_receiver as it was; one that
\* carries a code and no error stores that code.  The code handed to
\* exchange_code is one that a callback carried, and the one stored last.
AuthFlowEnds ==
  /\ (flow_pc \in {"wait", "exchange"}) ~> (flow_pc = "returned")
  /\ (flow_pc = "wait") ~> (flow_result = "timeout" \/ IsSome(code_receiver))
  /\ [](flow_result = "timeout" => (elapsed > 300 * 1000 /\ exchanged = None))
  /\ [][ callbacks' # callbacks =>
           LET p == Unwrap(last_callback') IN
             IF IsSome(p.error) \/ p.code = None
               THEN code_receiver' = code_receiver
               ELSE code_receiver' = p.code ]_vars
  /\ [](IsSome(code_receiver) => Unwrap(code_receiver) \in carried)
  /\ [][ exchanged' # exchanged =>
           (exchanged' = code_receiver /\ IsSome(code_receiver)
            /\ flow_pc' = "exchange") ]_vars

\* C35 witness: a callback with code1 and an error stored nothing, a later one
\* with code2 alone did, and code2 went to exchange_code, which has returned.
AuthFlowWitness ==
  /\ flow_pc = "returned"
  /\ flow_result = "ok"
  /\ callbacks = 2
  /\ carried = {"code1", "code2"}
  /\ last_callback = Some([ code |-> Some("code2"), error |-> None ])
  /\ exchanged = Some("code2")
  /\ elapsed > 0

\* C36: once start_auth_flow has returned, by whichever path, the callback
\* server task it spawned is no longer running, and no callback is answered
\* after the return.
ServerStoppedOnReturn ==
  flow_pc = "returned" => server_handle # "running"

\* ----------------------------------------------------------- YouTubeClient
\* crates/yt-grpc-client/src/lib.rs
\* Credentials a client may be made with; the last of each has a character
\* that no metadata value may hold
ApiKeys == {"k1", "k2", "k3\n"}

OAuthTokens == {"t1", "t2", "t3\n"}

\* AsciiMetadataValue::try_from, lines 55 and 62: only visible ASCII passes
try_from(value) ==
  IF value[Len(value)] \in {"k3\n", "t3\n"} THEN None ELSE Some(value)

\* line 61: format!("Bearer {}", oauth_token)
Bearer(oauth_token) == << "Bearer ", oauth_token >>

NoMetadata == [ x_goog_api_key |-> None, authorization |-> None ]

\* Variant: each credential the client holds is attached
AuthMetadataBoth(c) ==
  LET key == IF IsSome(c.api_key) THEN try_from(<< Unwrap(c.api_key) >>) ELSE None
      auth == IF IsSome(c.oauth_token)
                THEN try_from(Bearer(Unwrap(c.oauth_token))) ELSE None
  IN  IF (IsSome(c.api_key) /\ key = None) \/ (IsSome(c.oauth_token) /\ auth = None)
        THEN [ err |-> TRUE, metadata |-> NoMetadata ]
        ELSE [ err |-> FALSE,
               metadata |-> [ x_goog_api_key |-> key, authorization |-> auth ] ]

\* stream_comments, lines 52-66: the metadata of the request, or the error of
\* try_from returned by `?`
AuthMetadata(c) ==
  IF IsSome(c.api_key)
    THEN LET v == try_from(<< Unwrap(c.api_key) >>) IN
           IF v = None
             THEN [ err |-> TRUE, metadata |-> NoMetadata ]
             ELSE [ err |-> FALSE,
                    metadata |-> [ x_goog_api_key |-> v, authorization |-> None ] ]
  ELSE IF IsSome(c.oauth_token)
    THEN LET v == try_from(Bearer(Unwrap(c.oauth_token))) IN
           IF v = None
             THEN [ err |-> TRUE, metadata |-> NoMetadata ]
             ELSE [ err |-> FALSE,
                    metadata |-> [ x_goog_api_key |-> None, authorization |-> v ] ]
  ELSE [ err |-> FALSE, metadata |-> NoMetadata ]

\* YouTubeClient::connect, lines 21-36: a client with the credentials given,
\* or the error of the transport
connect ==
  /\ \/ \E k \in {None} \cup { Some(x) : x \in ApiKeys },
           t \in {None} \cup { Some(x) : x \in OAuthTokens } :
          client' = Some([ api_key |-> k, oauth_token |-> t ])
     \/ UNCHANGED client
  /\ UNCHANGED << request, main_vars, oauth_vars, flow_vars >>

\* YouTubeClient::stream_comments, lines 38-70: the request is built, the
\* credential is attached, and stream_list sends it; sent is FALSE when the
\* call returned before stream_list
stream_comments ==
  /\ IsSome(client)
  /\ \E live_chat_id \in {None} \cup { Some(x) : x \in ChatIds },
        page_token \in {None} \cup { Some(x) : x \in Tokens },
        rpc_ok \in BOOLEAN :
       LET m == AuthMetadata(Unwrap(client)) IN
         request' = Some([ client |-> Unwrap(client),
                           live_chat_id |-> live_chat_id,
                           page_token |-> page_token,
                           sent |-> ~m.err,
                           metadata |-> m.metadata,
                           ok |-> (~m.err /\ rpc_ok) ])
  /\ UNCHANGED << client, main_vars, oauth_vars, flow_vars >>

ClientInit ==
  /\ MainIdle
  /\ OAuthIdle
  /\ FlowIdle
  /\ ClientIdle

ClientNext ==
  \/ connect
  \/ stream_comments

SpecClient == ClientInit /\ [][ClientNext]_vars

\* C37: a request made by stream_comments carries at most one credential.
\* With an API key in the client, a request that is sent carries the key as
\* x-goog-api-key and no authorization, whether or not the client also holds
\* an OAuth token; authorization, as Bearer and the token, is carried only by a
\* request of a client without API key; a client with neither sends the
\* request without credential metadata.  A call that returns before sending
\* has attached nothing.
AtMostOneCredential ==
  IsSome(request) =>
    LET r == Unwrap(request)
        c == r.client
        m == r.metadata
    IN  /\ ~(IsSome(m.x_goog_api_key) /\ IsSome(m.authorization))
        /\ (IsSome(c.api_key) /\ r.sent)
             => (m.x_goog_api_key = Some(<< Unwrap(c.api_key) >>)
                 /\ m.authorization = None)
        /\ IsSome(m.authorization)
             => (c.api_key = None /\ IsSome(c.oauth_token)
                 /\ m.authorization = Some(<< "Bearer ", Unwrap(c.oauth_token) >>))
        /\ (c.api_key = None /\ IsSome(c.oauth_token) /\ r.sent)
             => IsSome(m.authorization)
        /\ (c.api_key = None /\ c.oauth_token = None)
             => (r.sent /\ m = [ x_goog_api_key |-> None, authorization |-> None ])
        /\ ~r.sent => m = [ x_goog_api_key |-> None, authorization |-> None ]

\* C37 witness: a client that holds both an API key and an OAuth token has
\* sent a request, and it carries the key alone.
BothCredentialsWitness ==
  /\ IsSome(request)
  /\ Unwrap(request).client = [ api_key |-> Some("k1"), oauth_token |-> Some("t1") ]
  /\ Unwrap(request).sent
  /\ Unwrap(request).metadata =
       [ x_goog_api_key |-> Some(<< "k1" >>), authorization |-> None ]

====
